---- MODULE Spec2Model ----
(***************************************************************************)
(* Lyrics retrieval, URL reconciliation and explicit-content scoring of    *)
(* the album dataset scripts (dataset_creation.py, data_collection.py).    *)
(*                                                                         *)
(* Text is modelled as a sequence of one-character strings, so that the    *)
(* character-level operations of the scripts (re.sub, lower, split, join,  *)
(* capitalize, strip, tokenize) are computed rather than assumed.          *)
(***************************************************************************)
EXTENDS Integers, Sequences, FiniteSets, TLC

VARIABLES
    pc,                          \* position of the script / of the function under study
    all_albums,                  \* list of album dicts before the DataFrame is built
    albums_df,                   \* the DataFrame: row index -> row, plus its column set
    error_title_artist_mapping,  \* rows selected for the Policy B retry
    error_title_artist_mapping2, \* rows selected for the first override pass
    error_title_artist_mapping3, \* rows selected for the second override pass
    todo,                        \* rows the running loop has still to visit, in order
    result_tuple,                \* value returned by the last alternate resolver call
    last,                        \* the resolver call made by the step just taken (history)
    has_lyrics,                  \* rows kept by the export filter
    arg,                         \* argument of the function under study
    ret                          \* value computed by the function under study

vars == <<pc, all_albums, albums_df, error_title_artist_mapping,
          error_title_artist_mapping2, error_title_artist_mapping3, todo,
          result_tuple, last, has_lyrics, arg, ret>>

pipeline_vars == <<all_albums, albums_df, error_title_artist_mapping,
                   error_title_artist_mapping2, error_title_artist_mapping3, todo,
                   result_tuple, last, has_lyrics>>

function_vars == <<arg, ret>>

-----------------------------------------------------------------------------
(* Bounds *)

\* longest free title drawn for the URL synthesizer
MaxLen == 3

-----------------------------------------------------------------------------
(* Python string primitives *)

\* the grave accent cannot be written inside a string literal: it is named
Grave == "grave-accent"

\* string.punctuation
string_punctuation ==
    {"!", "\"", "#", "$", "%", "&", "'", "(", ")", "*", "+", ",", "-", ".", "/", ":", ";", "<", "=", ">", "?", "@", "[", "\\", "]", "^", "_", Grave, "{", "|", "}", "~"}

\* the characters matched by the character class "[" + string.punctuation + "]":
\* inside the class the backslash of string.punctuation escapes the "]" that
\* follows it, so a backslash itself is not matched
PunctuationClass == string_punctuation \ {"\\"}

\* characters removed by str.strip()
Whitespace == {" ", "\t", "\n"}

UpperCase ==
    <<"A", "B", "C", "D", "E", "F", "G", "H", "I", "J", "K", "L", "M", "N", "O", "P", "Q", "R", "S", "T", "U", "V", "W", "X", "Y", "Z">>

LowerCase ==
    <<"a", "b", "c", "d", "e", "f", "g", "h", "i", "j", "k", "l", "m", "n", "o", "p", "q", "r", "s", "t", "u", "v", "w", "x", "y", "z">>

lower_char(c) ==
    IF \E k \in 1..Len(UpperCase) : UpperCase[k] = c
    THEN LowerCase[CHOOSE k \in 1..Len(UpperCase) : UpperCase[k] = c]
    ELSE c

upper_char(c) ==
    IF \E k \in 1..Len(LowerCase) : LowerCase[k] = c
    THEN UpperCase[CHOOSE k \in 1..Len(LowerCase) : LowerCase[k] = c]
    ELSE c

\* str.lower()
lower(s) == [k \in 1..Len(s) |-> lower_char(s[k])]

\* str.capitalize(): first character upper-cased, every other one lower-cased
capitalize(s) == [k \in 1..Len(s) |-> IF k = 1 THEN upper_char(s[k]) ELSE lower_char(s[k])]

RECURSIVE Concat(_)
\* concatenation of a sequence of strings
Concat(parts) == IF parts = <<>> THEN <<>> ELSE Head(parts) \o Concat(Tail(parts))

\* re.sub(cls, repl, s) for a pattern cls that matches one character of a set
re_sub_class(cls, repl, s) ==
    Concat([k \in 1..Len(s) |-> IF s[k] \in cls THEN repl ELSE <<s[k]>>])

RECURSIVE split_nonempty(_, _)
\* a split that keeps only the non-empty strings between separators
split_nonempty(s, sep) ==
    IF s = <<>> THEN <<>>
    ELSE IF s[1] = sep THEN split_nonempty(Tail(s), sep)
    ELSE IF \A k \in 1..Len(s) : s[k] # sep THEN <<s>>
    ELSE LET k == CHOOSE j \in 1..Len(s) : s[j] = sep /\ \A h \in 1..(j - 1) : s[h] # sep
         IN  <<SubSeq(s, 1, k - 1)>> \o split_nonempty(SubSeq(s, k + 1, Len(s)), sep)

RECURSIVE split(_, _)
\* str.split(sep) with an explicit one-character separator: every separator
\* cuts, so two separators in a row (or one at an end) give an empty string
split(s, sep) ==
    IF \A k \in 1..Len(s) : s[k] # sep
    THEN <<s>>
    ELSE LET k == CHOOSE j \in 1..Len(s) : s[j] = sep /\ \A h \in 1..(j - 1) : s[h] # sep
         IN  <<SubSeq(s, 1, k - 1)>> \o split(SubSeq(s, k + 1, Len(s)), sep)

RECURSIVE join(_, _)
\* sep.join(parts)
join(sep, parts) ==
    IF parts = <<>> THEN <<>>
    ELSE IF Len(parts) = 1 THEN parts[1]
    ELSE parts[1] \o sep \o join(sep, Tail(parts))

\* str.strip()
strip(s) ==
    IF \A k \in 1..Len(s) : s[k] \in Whitespace
    THEN <<>>
    ELSE LET a == CHOOSE j \in 1..Len(s) : s[j] \notin Whitespace /\ \A h \in 1..(j - 1) : s[h] \in Whitespace
             b == CHOOSE j \in 1..Len(s) : s[j] \notin Whitespace /\ \A h \in (j + 1)..Len(s) : s[h] \in Whitespace
         IN  SubSeq(s, a, b)

\* any(char in string.punctuation for char in s)
has_punctuation(s) == \E k \in 1..Len(s) : s[k] \in string_punctuation

-----------------------------------------------------------------------------
(* URL Synthesizer *)

GeniusAlbums ==
    <<"h", "t", "t", "p", ":", "/", "/", "g", "e", "n", "i", "u", "s", ".", "c", "o", "m", "/", "a", "l", "b", "u", "m", "s", "/">>

\* Policy A with every token capitalized instead of the joined string
reformat_blank_replace_title_case(name) ==
    LET no_punc == re_sub_class(PunctuationClass, <<" ">>, name)
        tokens  == split(lower(no_punc), " ")
    IN  join(<<"-">>, [k \in 1..Len(tokens) |-> capitalize(tokens[k])])

\* Policy A with the strip() that only Policy B has
reformat_blank_replace_stripped(name) ==
    LET no_punc == strip(re_sub_class(PunctuationClass, <<" ">>, name))
    IN  capitalize(join(<<"-">>, split(lower(no_punc), " ")))

\* Policy A, one field: punctuation replaced by a space, then slugged
reformat_blank_replace(name) ==
    LET no_punc == re_sub_class(PunctuationClass, <<" ">>, name)
    IN  capitalize(join(<<"-">>, split(lower(no_punc), " ")))

\* Policy B with the punctuation removed before the ampersands are replaced
reformat_ampersand_late(name) ==
    LET no_punc      == strip(re_sub_class(PunctuationClass, <<>>, name))
        no_ampersand == re_sub_class({"&"}, <<"a", "n", "d">>, no_punc)
    IN  capitalize(join(<<"-">>, split(lower(no_ampersand), " ")))

\* Policy B, one field: "&" -> "and", punctuation removed, stripped, then slugged
reformat_ampersand_aware(name) ==
    LET no_ampersand == re_sub_class({"&"}, <<"a", "n", "d">>, name)
        no_punc      == strip(re_sub_class(PunctuationClass, <<>>, no_ampersand))
    IN  capitalize(join(<<"-">>, split(lower(no_punc), " ")))

\* genius_url of add_album_lyrics
genius_url_A(artist, title) ==
    GeniusAlbums \o reformat_blank_replace(artist) \o <<"/">> \o reformat_blank_replace(title)

\* genius_url of add_lyrics_normal_alternate
genius_url_B(artist, title) ==
    GeniusAlbums \o reformat_ampersand_aware(artist) \o <<"/">> \o reformat_ampersand_aware(title)

-----------------------------------------------------------------------------
(* Lyrics Extractor *)

\* position of the last "]" that "\[.*\]" can reach from a "[" at position i:
\* "." matches every character but a newline, and ".*" is greedy
annotation_end(s, i) ==
    LET ends == {j \in (i + 1)..Len(s) :
                    s[j] = "]" /\ \A h \in (i + 1)..(j - 1) : s[h] # "\n"}
    IN  IF ends = {} THEN 0 ELSE CHOOSE j \in ends : \A h \in ends : h <= j

RECURSIVE re_sub_from(_, _, _)
\* re.sub("\[.*\]", repl, s), scanning s from position i
re_sub_from(s, i, repl) ==
    IF i > Len(s) THEN <<>>
    ELSE IF s[i] = "[" /\ annotation_end(s, i) # 0
         THEN repl \o re_sub_from(s, annotation_end(s, i) + 1, repl)
         ELSE <<s[i]>> \o re_sub_from(s, i + 1, repl)

\* retrieve_lyrics with every annotation replaced by a space
retrieve_lyrics_blank(lyric_div) ==
    Concat([k \in 1..Len(lyric_div) |-> re_sub_from(lyric_div[k], 1, <<" ">>)])

\* retrieve_lyrics, given the texts of the ".lyrics" elements of the fetched
\* page in document order (none when the page has no such element)
retrieve_lyrics(lyric_div) ==
    Concat([k \in 1..Len(lyric_div) |-> re_sub_from(lyric_div[k], 1, <<>>)])

-----------------------------------------------------------------------------
(* Explicit Content Scorer *)

\* the vocabulary: 52 entries, because "motherfuckers" "motherfuckin" are
\* written without a comma between them and Python joins adjacent literals
explicit_list == <<
    <<"a", "r", "s", "e">>,
    <<"a", "s", "s">>,
    <<"a", "s", "s", "h", "o", "l", "e">>,
    <<"a", "s", "s", "h", "o", "l", "e", "s">>,
    <<"b", "a", "s", "t", "a", "r", "d">>,
    <<"b", "a", "s", "t", "a", "r", "d", "s">>,
    <<"b", "i", "t", "c", "h">>,
    <<"b", "i", "t", "c", "h", "e", "s">>,
    <<"b", "u", "l", "l", "s", "h", "i", "t">>,
    <<"c", "o", "c", "a", "i", "n", "e">>,
    <<"c", "o", "c", "k">>,
    <<"c", "o", "k", "e">>,
    <<"d", "a", "m", "n">>,
    <<"d", "i", "c", "k">>,
    <<"d", "r", "u", "g">>,
    <<"d", "r", "u", "g", "s">>,
    <<"f", "a", "g", "g", "o", "t">>,
    <<"f", "a", "g", "g", "o", "t", "s">>,
    <<"f", "e", "n", "t", "a", "n", "y", "l">>,
    <<"f", "u", "c", "k">>,
    <<"f", "u", "c", "k", "a">>,
    <<"f", "u", "c", "k", "e", "d">>,
    <<"f", "u", "c", "k", "e", "r">>,
    <<"f", "u", "c", "k", "i", "n">>,
    <<"f", "u", "c", "k", "i", "n", "g">>,
    <<"f", "u", "c", "k", "s">>,
    <<"g", "o", "d", "d", "a", "m", "n">>,
    <<"h", "e", "l", "l">>,
    <<"h", "o", "r", "s", "e", "s", "h", "i", "t">>,
    <<"m", "o", "t", "h", "a", "f", "u", "c", "k", "a">>,
    <<"m", "o", "t", "h", "a", "f", "u", "c", "k", "a", "s">>,
    <<"m", "o", "t", "h", "e", "r", "f", "u", "c", "k", "a">>,
    <<"m", "o", "t", "h", "e", "r", "f", "u", "c", "k", "a", "s">>,
    <<"m", "o", "t", "h", "e", "r", "f", "u", "c", "k", "e", "r">>,
    <<"m", "o", "t", "h", "e", "r", "f", "u", "c", "k", "e", "r", "s", "m", "o", "t", "h", "e", "r", "f", "u", "c", "k", "i", "n">>,
    <<"m", "o", "t", "h", "e", "r", "f", "u", "c", "k", "i", "n", "g">>,
    <<"n", "i", "g", "g", "a">>,
    <<"n", "i", "g", "g", "a", "s">>,
    <<"n", "i", "g", "g", "e", "r">>,
    <<"n", "i", "g", "g", "e", "r", "s">>,
    <<"p", "e", "r", "c">>,
    <<"p", "e", "r", "c", "o", "c", "e", "t">>,
    <<"p", "i", "l", "l">>,
    <<"p", "i", "l", "l", "s">>,
    <<"p", "u", "s", "s", "y">>,
    <<"s", "e", "x">>,
    <<"s", "h", "i", "t">>,
    <<"s", "h", "i", "t", "s">>,
    <<"s", "l", "u", "t">>,
    <<"s", "l", "u", "t", "s">>,
    <<"w", "h", "o", "r", "e">>,
    <<"w", "h", "o", "r", "e", "s">>
>>

\* TreebankWordTokenizer.tokenize, for text made of letters, spaces, newlines,
\* commas, periods and exclamation marks (no digit, quote, bracket or dash,
\* and none of the words its contraction rules split): its substitution
\* passes in their order, then str.split()

RECURSIVE pad_commas(_)
\* ([:,])([^\d]) -> " \1 \2" and ([:,])$ -> " \1 ": the character after a
\* comma is consumed by the match, so it is copied without being examined
pad_commas(s) ==
    IF s = <<>> THEN <<>>
    ELSE IF s[1] = ","
         THEN IF Len(s) = 1 THEN <<" ", ",", " ">>
              ELSE <<" ", ",", " ", s[2]>> \o pad_commas(SubSeq(s, 3, Len(s)))
         ELSE <<s[1]>> \o pad_commas(Tail(s))

RECURSIVE pad_ellipses(_)
\* \.\.\. -> " ... "
pad_ellipses(s) ==
    IF s = <<>> THEN <<>>
    ELSE IF Len(s) >= 3 /\ SubSeq(s, 1, 3) = <<".", ".", ".">>
         THEN <<" ", ".", ".", ".", " ">> \o pad_ellipses(SubSeq(s, 4, Len(s)))
         ELSE <<s[1]>> \o pad_ellipses(Tail(s))

\* ([^\.])(\.)([\]\)}>"\']*)\s*$ -> "\1 \2\3 ": only a period that ends the
\* text (whitespace apart) and follows a character other than a period
pad_final_period(s) ==
    LET body == {j \in 1..Len(s) : s[j] \notin Whitespace}
        e    == IF body = {} THEN 0 ELSE CHOOSE j \in body : \A h \in body : h <= j
    IN  IF e >= 2 /\ s[e] = "." /\ s[e - 1] # "."
        THEN SubSeq(s, 1, e - 1) \o <<" ", ".", " ">>
        ELSE s

\* [?!] -> " \g<0> "
pad_marks(s) == re_sub_class({"!"}, <<" ", "!", " ">>, s)

RECURSIVE split_whitespace(_)
\* str.split(): runs of whitespace separate, no empty string is produced
split_whitespace(s) ==
    IF \A k \in 1..Len(s) : s[k] \in Whitespace
    THEN <<>>
    ELSE LET a == CHOOSE j \in 1..Len(s) : s[j] \notin Whitespace /\ \A h \in 1..(j - 1) : s[h] \in Whitespace
             rest == {j \in (a + 1)..Len(s) : s[j] \in Whitespace}
             b == IF rest = {} THEN Len(s) + 1 ELSE CHOOSE j \in rest : \A h \in rest : j <= h
         IN  <<SubSeq(s, a, b - 1)>> \o split_whitespace(SubSeq(s, b, Len(s)))

tokenize(text) ==
    split_whitespace(pad_marks(pad_final_period(pad_ellipses(pad_commas(text)))))

\* list.count(word)
count(tokens, word) == Cardinality({k \in 1..Len(tokens) : tokens[k] = word})

RECURSIVE sum_counts(_, _)
\* the loop "for word in words: current_count += lyrics.count(word)"
sum_counts(tokens, words) ==
    IF words = <<>> THEN 0
    ELSE count(tokens, Head(words)) + sum_counts(tokens, Tail(words))

\* the loop "for word in explicit_list" counting a token when a listed word
\* occurs inside it
current_count_substring(lyrics) ==
    LET tokens == tokenize(lower(join(<<" ">>, lyrics)))
        inside(t, w) == \E a \in 1..Len(t) : a + Len(w) - 1 <= Len(t) /\ SubSeq(t, a, a + Len(w) - 1) = w
        hits(w) == Cardinality({k \in 1..Len(tokens) : inside(tokens[k], w)})
        RECURSIVE total(_)
        total(ws) == IF ws = <<>> THEN 0 ELSE hits(Head(ws)) + total(Tail(ws))
    IN  total(explicit_list)

\* current_count of the scoring loop for one row
current_count(lyrics) ==
    sum_counts(tokenize(lower(join(<<" ">>, lyrics))), explicit_list)

\* a num_lyric_tracks cell: a number, or NaN when the album dict had no such key
NaN == <<>>
Num(n) == <<n>>

\* a float quotient is kept as the fraction it is computed from
Float(n, d) == [n |-> n, d |-> d]
float_eq(x, y) == x.n * y.d = y.n * x.d

\* the explicit_average entry without the guard on num_lyric_tracks
explicit_average_unguarded(count_, num_lyric_tracks) ==
    IF num_lyric_tracks # NaN /\ num_lyric_tracks[1] # 0
    THEN Float(count_, num_lyric_tracks[1])
    ELSE [n |-> count_, d |-> 0, error |-> "ZeroDivisionError"]

\* the explicit_average entry: NaN > 0 is False
explicit_average_of(count_, num_lyric_tracks) ==
    IF num_lyric_tracks # NaN /\ num_lyric_tracks[1] > 0
    THEN Float(count_, num_lyric_tracks[1])
    ELSE Float(0, 1)

-----------------------------------------------------------------------------
(* Values the variables hold while another part of the program is studied *)

NoFunction == arg = <<>> /\ ret = <<>>

NoPipeline ==
    /\ all_albums = <<>>
    /\ albums_df = <<>>
    /\ error_title_artist_mapping = <<>>
    /\ error_title_artist_mapping2 = <<>>
    /\ error_title_artist_mapping3 = <<>>
    /\ todo = <<>>
    /\ result_tuple = <<>>
    /\ last = <<>>
    /\ has_lyrics = {}

-----------------------------------------------------------------------------
(* The URL Synthesizer on its own: both policies applied to one (artist,   *)
(* title) pair                                                             *)

KendrickLamar == <<"K", "e", "n", "d", "r", "i", "c", "k", " ", "L", "a", "m", "a", "r">>
DAMN == <<"D", "A", "M", "N", ".">>
AandR == <<"A", "&", "R">>
SteveEarle == <<"S", "t", "e", "v", "e", " ", "E", "a", "r", "l", "e">>
Guy == <<"G", "u", "y">>

\* characters of the free titles: a lower- and an upper-case letter, a space,
\* a tab, the ampersand, a period and the backslash
UrlAlphabet == {"a", "B", " ", "\t", "&", ".", "\\"}

BoundedStrings == UNION {[1..n -> UrlAlphabet] : n \in 0..MaxLen}

UrlTitles ==
    BoundedStrings \cup {DAMN, AandR, Guy, <<"A", " ", "-", " ", "B">>, <<"a", " ", " ", "b">>}

UrlArtists == {KendrickLamar, SteveEarle, <<" ", "x">>, <<"R", "&", "B">>}

InitUrl ==
    /\ pc = "url"
    /\ arg \in [artist : UrlArtists, title : UrlTitles]
    /\ ret = [called |-> {}, A |-> <<>>, B |-> <<>>]
    /\ NoPipeline

\* lines 105-116 of add_album_lyrics
SynthesizeA ==
    /\ pc = "url"
    /\ "A" \notin ret.called
    /\ ret' = [ret EXCEPT !.called = @ \cup {"A"}, !.A = genius_url_A(arg.artist, arg.title)]
    /\ UNCHANGED <<pc, arg, pipeline_vars>>

\* lines 153-166 of add_lyrics_normal_alternate
SynthesizeB ==
    /\ pc = "url"
    /\ "B" \notin ret.called
    /\ ret' = [ret EXCEPT !.called = @ \cup {"B"}, !.B = genius_url_B(arg.artist, arg.title)]
    /\ UNCHANGED <<pc, arg, pipeline_vars>>

NextUrl == SynthesizeA \/ SynthesizeB

SpecUrl == InitUrl /\ [][NextUrl]_vars

-----------------------------------------------------------------------------
(* The Lyrics Extractor on its own: retrieve_lyrics applied to one page *)

\* longest free text of a lyrics container
MaxTextLen == 3

ChorusILoveYou ==
    <<"[", "C", "h", "o", "r", "u", "s", "]", " ", "I", " ", "l", "o", "v", "e", " ", "y", "o", "u">>

TwoAnnotations ==
    <<"[", "V", "e", "r", "s", "e", " ", "1", "]", " ", "h", "e", "l", "l", "o", " ",
      "[", "C", "h", "o", "r", "u", "s", "]", " ", "w", "o", "r", "l", "d">>

LyricsAlphabet == {"[", "]", "a", "\n"}

ContainerTexts ==
    UNION {[1..n -> LyricsAlphabet] : n \in 0..MaxTextLen} \cup {ChorusILoveYou, TwoAnnotations}

\* pages with no lyrics container, with one, and with two
LyricPages ==
    {<<>>} \cup {<<t>> : t \in ContainerTexts}
           \cup {<<t, u>> : t \in ContainerTexts, u \in {ChorusILoveYou, <<"a", "]">>}}

InitLyrics ==
    /\ pc = "retrieve_lyrics"
    /\ arg \in LyricPages
    /\ ret = [done |-> FALSE, lyrics |-> <<>>]
    /\ NoPipeline

\* lines 80-88 of retrieve_lyrics, once the page is fetched
RetrieveLyrics ==
    /\ pc = "retrieve_lyrics"
    /\ ~ret.done
    /\ ret' = [done |-> TRUE, lyrics |-> retrieve_lyrics(arg)]
    /\ UNCHANGED <<pc, arg, pipeline_vars>>

NextLyrics == RetrieveLyrics

SpecLyrics == InitLyrics /\ [][NextLyrics]_vars

-----------------------------------------------------------------------------
(* The Scorer on its own: one row scored *)

\* most tracks of a scored row
MaxScoreTracks == 2

ScoreTexts == {
    <<>>,
    <<"F", "u", "c", "k", " ", "t", "h", "i", "s", " ", "s", "h", "i", "t">>,
    <<"f", "u", "c", "k", " ", "t", "h", "i", "s", " ", "s", "h", "i", "t">>,
    <<"h", "e", "l", "l", ",", " ", "n", "o">>,
    <<"s", "h", "e", "l", "l">>,
    <<"O", "h", " ", "H", "e", "l", "l", "!">>,
    <<"d", "a", "m", "n", ".">>,
    <<"m", "o", "t", "h", "e", "r", "f", "u", "c", "k", "e", "r", "s">>
}

ScoreLyrics == UNION {[1..n -> ScoreTexts] : n \in 0..MaxScoreTracks}

InitScore ==
    /\ pc = "score_row"
    /\ arg \in [lyrics : ScoreLyrics,
                num_lyric_tracks : {NaN} \cup {Num(n) : n \in 0..MaxScoreTracks}]
    /\ ret = [done |-> FALSE, explicit_count |-> 0, explicit_avg |-> Float(0, 1)]
    /\ NoPipeline

\* lines 709-718, one iteration of the scoring loop
ScoreRow ==
    /\ pc = "score_row"
    /\ ~ret.done
    /\ ret' = [done |-> TRUE,
               explicit_count |-> current_count(arg.lyrics),
               explicit_avg |-> explicit_average_of(current_count(arg.lyrics), arg.num_lyric_tracks)]
    /\ UNCHANGED <<pc, arg, pipeline_vars>>

NextScore == ScoreRow

SpecScore == InitScore /\ [][NextScore]_vars

-----------------------------------------------------------------------------
(* The pipeline of dataset_creation.py: initial scraping, the three        *)
(* reconciliation passes, scoring and the export filter                    *)

\* most track links on an index page
MaxTracks == 2

\* row positions studied: 3 is a key of album_url_mappings only, 17 of
\* additional_url_mappings only
Rows == {3, 17}

\* keys of album_url_mappings
album_url_mappings_keys == {
    3, 19, 120, 171, 205, 249, 254, 285, 286, 297, 304, 311, 367, 371, 392,
    426, 427, 450, 459, 483, 485, 492, 496, 501, 540, 547, 559, 590, 623,
    633, 672, 676, 696, 703, 722, 727, 742, 798, 833, 848, 852, 860, 863,
    876, 964, 1018, 1043, 1049, 1075, 1101, 1109, 1160, 1213, 1215, 1223,
    1227, 1238, 1267, 1305, 1318, 1349, 1400, 1401, 1410, 1433, 1469, 1477,
    1493, 1506, 1515, 1518, 1520, 1550, 1605, 1615, 1620, 1630, 1645, 1663,
    1691, 1699, 1701, 1703, 1725, 1742, 1750, 1751, 1766, 1767, 1804, 1815,
    1826, 1841, 1873, 1889, 1911, 1981, 2026, 2096, 2142, 2149, 2179, 2197,
    2217, 2237, 2243, 2254, 2265, 2279, 2283, 2323, 2324, 2336, 2369, 2396,
    2427, 2448, 2469, 2472, 2485, 2487, 2489, 2498, 2523, 2565, 2589, 2607,
    2637, 2652, 2736, 2740, 2771, 2772, 2776, 2779, 2798, 2826, 2880, 2906,
    2911, 2943, 2968, 2970, 2984, 3000, 3118, 3127, 3137, 3139, 3197, 3217,
    3218, 3223
}

\* keys of additional_url_mappings
additional_url_mappings_keys == {
    17, 41, 67, 139, 156, 172, 207, 292, 413, 435, 462, 463, 470, 499, 525,
    542, 624, 632, 728, 733, 760, 828, 849, 897, 917, 1003, 1017, 1034,
    1035, 1053, 1092, 1093, 1127, 1155, 1170, 1185, 1294, 1316, 1360, 1397,
    1423, 1530, 1539, 1541, 1562, 1569, 1572, 1619, 1631, 1646, 1648, 1657,
    1681, 1694, 1701, 1721, 1731, 1748, 1762, 1773, 1824, 1833, 1918, 1949,
    1980, 1985, 2069, 2086, 2097, 2116, 2150, 2192, 2194, 2199, 2250, 2256,
    2271, 2298, 2318, 2345, 2351, 2353, 2370, 2371, 2402, 2417, 2499, 2503,
    2570, 2582, 2619, 2628, 2645, 2673, 2753, 2759, 2806, 2840, 2896, 2932,
    2957, 2990, 3036, 3047, 3085, 3104, 3113, 3121
}

\* album_url_mappings[i] for the rows studied
album_url_mappings(i) ==
    CASE i = 3 -> <<"h", "t", "t", "p", "s", ":", "/", "/", "g", "e", "n", "i", "u", "s", ".", "c", "o", "m", "/", "a", "l", "b", "u", "m", "s", "/", "B", "a", "r", "o", "n", "e", "s", "s", "/", "G", "o", "l", "d", "-", "g", "r", "e", "y">>
      [] i = 1701 -> <<"h", "t", "t", "p", "s", ":", "/", "/", "g", "e", "n", "i", "u", "s", ".", "c", "o", "m", "/", "D", "e", "a", "t", "h", "-", "f", "r", "o", "m", "-", "a", "b", "o", "v", "e", "-", "1", "9", "7", "9", "-", "o", "u", "t", "r", "a", "g", "e", "-", "i", "s", "-", "n", "o", "w", "-", "l", "y", "r", "i", "c", "s">>

\* additional_url_mappings[i] for the rows studied
additional_url_mappings(i) ==
    CASE i = 17 -> <<"h", "t", "t", "p", "s", ":", "/", "/", "g", "e", "n", "i", "u", "s", ".", "c", "o", "m", "/", "a", "l", "b", "u", "m", "s", "/", "F", "r", "e", "d", "d", "i", "e", "-", "g", "i", "b", "b", "s", "-", "a", "n", "d", "-", "m", "a", "d", "l", "i", "b", "/", "B", "a", "n", "d", "a", "n", "a">>
      [] i = 1701 -> <<"h", "t", "t", "p", "s", ":", "/", "/", "g", "e", "n", "i", "u", "s", ".", "c", "o", "m", "/", "a", "l", "b", "u", "m", "s", "/", "D", "e", "a", "t", "h", "-", "f", "r", "o", "m", "-", "a", "b", "o", "v", "e", "-", "1", "9", "7", "9", "/", "O", "u", "t", "r", "a", "g", "e", "-", "i", "s", "-", "n", "o", "w">>

\* album dicts as organize_basic_album_info returns them: one whose title has
\* punctuation and one with none
AlbumInputs == {
    [title |-> DAMN, metascore |-> <<"9", "5">>, artist |-> KendrickLamar,
     user_score |-> <<"8", ".", "8">>, release_date |-> <<"1", "4", "-", "A", "p", "r", "-", "1", "7">>],
    [title |-> Guy, metascore |-> <<"8", "0">>, artist |-> SteveEarle,
     user_score |-> <<"t", "b", "d">>, release_date |-> <<"2", "9", "-", "M", "a", "r", "-", "1", "9">>]
}

\* d[k] = v on a dict
dict_set(d, k, v) == [x \in DOMAIN d \cup {k} |-> IF x = k THEN v ELSE d[x]]

\* track pages the site can serve: one without a lyrics container, one whose
\* container holds an annotation and a vocabulary word
TrackPages == {<<>>, <<<<"[", "a", "]", "h", "e", "l", "l">>>>}

\* what the site does during one resolver call: the index request raises, or
\* the index page holds `urls` track links and the track pages `pages` are
\* served in order; when fewer pages than links are served, the request for
\* the next track raises
Outcomes ==
    {[index_ok |-> FALSE, urls |-> 0, pages |-> <<>>]}
    \cup {[index_ok |-> TRUE, urls |-> n, pages |-> p] :
            n \in 0..MaxTracks, p \in UNION {[1..k -> TrackPages] : k \in 0..MaxTracks}}

ValidOutcome(o) == Len(o.pages) <= o.urls

\* the track loop with each string put in front of the ones before it
scraped_reversed(o) ==
    [k \in 1..Len(o.pages) |-> retrieve_lyrics(o.pages[Len(o.pages) + 1 - k])]

\* the track loop with an append that skips a page without text
scraped_nonempty(o) ==
    LET found(lyrics) == lyrics # <<>>
    IN  SelectSeq([k \in 1..Len(o.pages) |-> retrieve_lyrics(o.pages[k])], found)

\* lines 130-132, 179-181 and 215-217: one string appended per page served
scraped(o) == [k \in 1..Len(o.pages) |-> retrieve_lyrics(o.pages[k])]

\* lines 118-135 with album["lyrics"] = [] moved inside the try: a failed
\* index request leaves the album without a lyrics field
add_album_lyrics_body_lyrics_in_try(album, o) ==
    IF ~o.index_ok THEN album
    ELSE dict_set(dict_set(album, "num_lyric_tracks", Num(o.urls)), "lyrics", scraped(o))

\* lines 118-135, the body of the loop of add_album_lyrics for one album
add_album_lyrics_body(album, o) ==
    LET started == dict_set(album, "lyrics", <<>>)
    IN  IF ~o.index_ok THEN started
        ELSE dict_set(dict_set(started, "num_lyric_tracks", Num(o.urls)), "lyrics", scraped(o))

\* lines 168-187: num_tracks is assigned after the track loop, so a track
\* request that raises leaves it 0
add_lyrics_normal_alternate(artist, title, o) ==
    IF ~o.index_ok THEN <<<<>>, 0>>
    ELSE <<scraped(o), IF Len(o.pages) = o.urls THEN o.urls ELSE 0>>

\* lines 204-223
add_lyrics_hardcode_alternate(genius_url, o) ==
    IF ~o.index_ok THEN <<<<>>, 0>>
    ELSE <<scraped(o), IF Len(o.pages) = o.urls THEN o.urls ELSE 0>>

\* columns of pandas.DataFrame(list of dicts) as the scripts rely on them:
\* the union of the keys, in alphabetical order (iloc[i, 0] is the artist)
ColumnOrder ==
    <<"artist", "lyrics", "metascore", "num_lyric_tracks", "release_date", "title", "user_score">>

df_columns(df) == UNION {DOMAIN df[i] : i \in DOMAIN df}

\* pandas.DataFrame(all_albums): a missing key becomes NaN
DataFrame(albums) ==
    LET cols == UNION {DOMAIN albums[i] : i \in DOMAIN albums}
    IN  [i \in DOMAIN albums |->
            [c \in cols |-> IF c \in DOMAIN albums[i] THEN albums[i][c] ELSE NaN]]

\* df.iloc[i, k]
iloc(df, i, k) ==
    LET present(c) == c \in df_columns(df)
    IN  df[i][SelectSeq(ColumnOrder, present)[k + 1]]

\* df.at[i + 1, col] = v: the assignment lands one label too far and, past
\* the last label, enlarges the frame by a row
at_set_next_label(df, i, col, v) ==
    [r \in DOMAIN df \cup {i + 1} |->
        [c \in df_columns(df) \cup {col} |->
            IF r = i + 1 /\ c = col THEN v
            ELSE IF r \in DOMAIN df /\ c \in DOMAIN df[r] THEN df[r][c] ELSE NaN]]

\* df.at[i, col] = v: a new column is NaN in the other rows, and a label
\* that is not in the index becomes a new row
at_set(df, i, col, v) ==
    [r \in DOMAIN df \cup {i} |->
        [c \in df_columns(df) \cup {col} |->
            IF r = i /\ c = col THEN v
            ELSE IF r \in DOMAIN df /\ c \in DOMAIN df[r] THEN df[r][c] ELSE NaN]]

RECURSIVE ascending(_)
\* the elements of a set of row indices in iteration order
ascending(S) ==
    IF S = {} THEN <<>>
    ELSE LET m == CHOOSE x \in S : \A y \in S : x <= y
         IN  <<m>> \o ascending(S \ {m})

row_has_punctuation(row) ==
    has_punctuation(row["title"]) \/ has_punctuation(row["artist"])

\* the selection of lines 311-314 without the punctuation test
still_missing_any(df) ==
    {i \in DOMAIN df : Len(df[i]["lyrics"]) = 0}

\* lines 311-314 and 329-332: rows with no lyrics and some punctuation
still_missing_with_punctuation(df) ==
    {i \in DOMAIN df : Len(df[i]["lyrics"]) = 0 /\ row_has_punctuation(df[i])}

\* lines 505-507: rows whose lyrics have length 2
still_missing_length_two(df) ==
    {i \in DOMAIN df : Len(df[i]["lyrics"]) = 2}

error_mapping(df, S) == [i \in S |-> <<df[i]["title"], df[i]["artist"]>>]

\* a track loop that goes on to the next link after a request that raised
track_requests_skipping(o) == IF o.index_ok THEN o.urls ELSE 0

\* lines 130-131, 179-180 and 215-216: the number of retrieve_lyrics calls the
\* track loop makes; the first one that raises leaves the loop and the try
track_requests(o) ==
    IF ~o.index_ok THEN 0
    ELSE IF Len(o.pages) < o.urls THEN Len(o.pages) + 1 ELSE o.urls

NoCall ==
    [pass |-> 0, fn |-> "none", row |-> 0, url |-> <<>>, before |-> <<>>,
     index_failed |-> FALSE, track_failed |-> FALSE, pages |-> <<>>,
     urls |-> 0, requested |-> 0]

Call(pass, fn, row, url, before, o) ==
    [pass |-> pass, fn |-> fn, row |-> row, url |-> url, before |-> before,
     index_failed |-> ~o.index_ok, track_failed |-> o.index_ok /\ Len(o.pages) < o.urls,
     pages |-> IF o.index_ok THEN o.pages ELSE <<>>,
     urls |-> IF o.index_ok THEN o.urls ELSE 0,
     requested |-> track_requests(o)]

Init ==
    /\ pc = "add_album_lyrics"
    /\ all_albums \in [Rows -> AlbumInputs]
    /\ albums_df = <<>>
    /\ error_title_artist_mapping = <<>>
    /\ error_title_artist_mapping2 = <<>>
    /\ error_title_artist_mapping3 = <<>>
    /\ todo = ascending(Rows)
    /\ result_tuple = <<<<>>, 0>>
    /\ last = NoCall
    /\ has_lyrics = {}
    /\ NoFunction

\* lines 259-286: one iteration of the loop of add_album_lyrics
AddAlbumLyrics ==
    /\ pc = "add_album_lyrics"
    /\ todo # <<>>
    /\ \E o \in Outcomes :
          /\ ValidOutcome(o)
          /\ LET i == Head(todo)
                 album == all_albums[i]
             IN  /\ all_albums' = [all_albums EXCEPT ![i] = add_album_lyrics_body(album, o)]
                 /\ last' = Call(0, "add_album_lyrics", i,
                                 genius_url_A(album["artist"], album["title"]), <<>>, o)
    /\ todo' = Tail(todo)
    /\ UNCHANGED <<pc, albums_df, error_title_artist_mapping, error_title_artist_mapping2,
                   error_title_artist_mapping3, result_tuple, has_lyrics, function_vars>>

\* lines 292-294; the list of dicts is not read again and is dropped
MakeDataFrame ==
    /\ pc = "add_album_lyrics"
    /\ todo = <<>>
    /\ albums_df' = DataFrame(all_albums)
    /\ all_albums' = <<>>
    /\ last' = NoCall
    /\ pc' = "select1"
    /\ UNCHANGED <<error_title_artist_mapping, error_title_artist_mapping2,
                   error_title_artist_mapping3, todo, result_tuple, has_lyrics,
                   function_vars>>

\* lines 309-314
Select1 ==
    /\ pc = "select1"
    /\ error_title_artist_mapping' =
          error_mapping(albums_df, still_missing_with_punctuation(albums_df))
    /\ todo' = ascending(DOMAIN error_title_artist_mapping')
    /\ pc' = "pass1"
    /\ last' = NoCall
    /\ UNCHANGED <<all_albums, albums_df, error_title_artist_mapping2,
                   error_title_artist_mapping3, result_tuple, has_lyrics,
                   function_vars>>

\* lines 318-321, one iteration
Pass1 ==
    /\ pc = "pass1"
    /\ todo # <<>>
    /\ \E o \in Outcomes :
          /\ ValidOutcome(o)
          /\ LET i == Head(todo)
                 artist == iloc(albums_df, i, 0)
                 title  == iloc(albums_df, i, 5)
                 result == add_lyrics_normal_alternate(artist, title, o)
             IN  /\ result_tuple' = result
                 /\ albums_df' = at_set(at_set(albums_df, i, "lyrics", result[1]),
                                        i, "num_lyric_tracks", Num(result[2]))
                 /\ last' = Call(1, "add_lyrics_normal_alternate", i,
                                 genius_url_B(artist, title), albums_df[i]["lyrics"], o)
    /\ todo' = Tail(todo)
    /\ UNCHANGED <<pc, all_albums, error_title_artist_mapping, error_title_artist_mapping2,
                   error_title_artist_mapping3, has_lyrics, function_vars>>

\* lines 327-332
Select2 ==
    /\ pc = "pass1"
    /\ todo = <<>>
    /\ error_title_artist_mapping2' =
          error_mapping(albums_df, still_missing_with_punctuation(albums_df))
    /\ todo' = ascending(DOMAIN error_title_artist_mapping2')
    /\ pc' = "pass2"
    /\ last' = NoCall
    /\ UNCHANGED <<all_albums, albums_df, error_title_artist_mapping,
                   error_title_artist_mapping3, result_tuple, has_lyrics,
                   function_vars>>

\* lines 493-497, one iteration for a row with an override
Pass2 ==
    /\ pc = "pass2"
    /\ todo # <<>>
    /\ Head(todo) \in album_url_mappings_keys
    /\ \E o \in Outcomes :
          /\ ValidOutcome(o)
          /\ LET i == Head(todo)
                 result == add_lyrics_hardcode_alternate(album_url_mappings(i), o)
             IN  /\ result_tuple' = result
                 /\ albums_df' = at_set(at_set(albums_df, i, "lyrics", result[1]),
                                        i, "num_lyric_tracks", Num(result[2]))
                 /\ last' = Call(2, "add_lyrics_hardcode_alternate", i,
                                 album_url_mappings(i), albums_df[i]["lyrics"], o)
    /\ todo' = Tail(todo)
    /\ UNCHANGED <<pc, all_albums, error_title_artist_mapping, error_title_artist_mapping2,
                   error_title_artist_mapping3, has_lyrics, function_vars>>

\* lines 493-494, one iteration for a row without an override
Pass2Skip ==
    /\ pc = "pass2"
    /\ todo # <<>>
    /\ Head(todo) \notin album_url_mappings_keys
    /\ todo' = Tail(todo)
    /\ last' = NoCall
    /\ UNCHANGED <<pc, all_albums, albums_df, error_title_artist_mapping,
                   error_title_artist_mapping2, error_title_artist_mapping3,
                   result_tuple, has_lyrics, function_vars>>

\* lines 503-507
Select3 ==
    /\ pc = "pass2"
    /\ todo = <<>>
    /\ error_title_artist_mapping3' =
          error_mapping(albums_df, still_missing_length_two(albums_df))
    /\ todo' = ascending(DOMAIN error_title_artist_mapping3')
    /\ pc' = "pass3"
    /\ last' = NoCall
    /\ UNCHANGED <<all_albums, albums_df, error_title_artist_mapping,
                   error_title_artist_mapping2, result_tuple, has_lyrics,
                   function_vars>>

\* lines 622-626, one iteration for a row with an override
Pass3 ==
    /\ pc = "pass3"
    /\ todo # <<>>
    /\ Head(todo) \in additional_url_mappings_keys
    /\ \E o \in Outcomes :
          /\ ValidOutcome(o)
          /\ LET i == Head(todo)
                 result == add_lyrics_hardcode_alternate(additional_url_mappings(i), o)
             IN  /\ result_tuple' = result
                 /\ albums_df' = at_set(at_set(albums_df, i, "lyrics", result[1]),
                                        i, "num_lyric_tracks", Num(result[2]))
                 /\ last' = Call(3, "add_lyrics_hardcode_alternate", i,
                                 additional_url_mappings(i), albums_df[i]["lyrics"], o)
    /\ todo' = Tail(todo)
    /\ UNCHANGED <<pc, all_albums, error_title_artist_mapping, error_title_artist_mapping2,
                   error_title_artist_mapping3, has_lyrics, function_vars>>

\* lines 622-623, one iteration for a row without an override
Pass3Skip ==
    /\ pc = "pass3"
    /\ todo # <<>>
    /\ Head(todo) \notin additional_url_mappings_keys
    /\ todo' = Tail(todo)
    /\ last' = NoCall
    /\ UNCHANGED <<pc, all_albums, albums_df, error_title_artist_mapping,
                   error_title_artist_mapping2, error_title_artist_mapping3,
                   result_tuple, has_lyrics, function_vars>>

\* lines 708-726: the scoring loop and the two new columns
Score ==
    /\ pc = "pass3"
    /\ todo = <<>>
    /\ "num_lyric_tracks" \in df_columns(albums_df)
    /\ albums_df' =
          [i \in DOMAIN albums_df |->
              LET row == albums_df[i]
                  current == current_count(row["lyrics"])
              IN  dict_set(dict_set(row, "explicit_count", current),
                           "explicit_avg", explicit_average_of(current, row["num_lyric_tracks"]))]
    /\ pc' = "scored"
    /\ last' = NoCall
    /\ UNCHANGED <<all_albums, error_title_artist_mapping, error_title_artist_mapping2,
                   error_title_artist_mapping3, todo, result_tuple, has_lyrics,
                   function_vars>>

\* line 715 when no album dict ever got a num_lyric_tracks key and no pass
\* wrote one: row["num_lyric_tracks"] raises KeyError and the script stops
ScoreKeyError ==
    /\ pc = "pass3"
    /\ todo = <<>>
    /\ "num_lyric_tracks" \notin df_columns(albums_df)
    /\ pc' = "KeyError"
    /\ last' = NoCall
    /\ UNCHANGED <<all_albums, albums_df, error_title_artist_mapping,
                   error_title_artist_mapping2, error_title_artist_mapping3, todo,
                   result_tuple, has_lyrics, function_vars>>

\* line 732
Filter ==
    /\ pc = "scored"
    /\ has_lyrics' = {i \in DOMAIN albums_df :
                        /\ albums_df[i]["num_lyric_tracks"] # NaN
                        /\ albums_df[i]["num_lyric_tracks"][1] > 0}
    /\ pc' = "done"
    /\ last' = NoCall
    /\ UNCHANGED <<all_albums, albums_df, error_title_artist_mapping,
                   error_title_artist_mapping2, error_title_artist_mapping3, todo,
                   result_tuple, function_vars>>

Next ==
    \/ AddAlbumLyrics
    \/ MakeDataFrame
    \/ Select1
    \/ Pass1
    \/ Select2
    \/ Pass2
    \/ Pass2Skip
    \/ Select3
    \/ Pass3
    \/ Pass3Skip
    \/ Score
    \/ ScoreKeyError
    \/ Filter

Spec == Init /\ [][Next]_vars

-----------------------------------------------------------------------------
(* The cascade of dataset_creation.py against a site that answers every    *)
(* URL the same way on every request, run a second time on the table it    *)
(* produced. arg is the site, ret records the table of the first run.      *)

\* the URLs the script can request for the rows studied: lines 116 and 166
\* for each album (iloc[i, 5] is the user score while the table has no
\* num_lyric_tracks column), and the values of the two override maps
SiteUrls ==
    {genius_url_A(a["artist"], a["title"]) : a \in AlbumInputs}
    \cup {genius_url_B(a["artist"], a[c]) :
            a \in {x \in AlbumInputs : row_has_punctuation(x)}, c \in {"title", "user_score"}}
    \cup {album_url_mappings(i) : i \in Rows \cap album_url_mappings_keys}
    \cup {additional_url_mappings(i) : i \in Rows \cap additional_url_mappings_keys}

\* what a URL can answer: the index request raises, one track, or two tracks
SiteAnswers ==
    LET page == <<<<"[", "a", "]", "h", "e", "l", "l">>>>
    IN  {[index_ok |-> FALSE, urls |-> 0, pages |-> <<>>],
         [index_ok |-> TRUE, urls |-> 1, pages |-> <<page>>],
         [index_ok |-> TRUE, urls |-> 2, pages |-> <<page, page>>]}

\* the resolver call of the step was answered as the site answers its URL
FollowsSite ==
    last' = Call(last'.pass, last'.fn, last'.row, last'.url, last'.before, arg[last'.url])

InitRerun ==
    /\ pc = "add_album_lyrics"
    /\ all_albums \in [Rows -> AlbumInputs]
    /\ albums_df = <<>>
    /\ error_title_artist_mapping = <<>>
    /\ error_title_artist_mapping2 = <<>>
    /\ error_title_artist_mapping3 = <<>>
    /\ todo = ascending(Rows)
    /\ result_tuple = <<<<>>, 0>>
    /\ last = NoCall
    /\ has_lyrics = {}
    /\ arg \in [SiteUrls -> SiteAnswers]
    /\ ret = [run |-> 1, produced |-> <<>>]

\* lines 259-286 against the site
SiteAddAlbumLyrics == AddAlbumLyrics /\ FollowsSite

\* lines 318-321 against the site
SitePass1 == Pass1 /\ FollowsSite

\* lines 493-497 against the site
SitePass2 == Pass2 /\ FollowsSite

\* lines 622-626 against the site
SitePass3 == Pass3 /\ FollowsSite

\* lines 309-626 executed a second time on the table they produced
RunAgain ==
    /\ pc = "pass3"
    /\ todo = <<>>
    /\ ret.run = 1
    /\ ret' = [run |-> 2, produced |-> albums_df]
    /\ pc' = "select1"
    /\ last' = NoCall
    /\ UNCHANGED <<all_albums, albums_df, error_title_artist_mapping,
                   error_title_artist_mapping2, error_title_artist_mapping3, todo,
                   result_tuple, has_lyrics, arg>>

NextRerun ==
    \/ SiteAddAlbumLyrics
    \/ MakeDataFrame
    \/ Select1
    \/ SitePass1
    \/ Select2
    \/ SitePass2
    \/ Pass2Skip
    \/ Select3
    \/ SitePass3
    \/ Pass3Skip
    \/ RunAgain

SpecRerun == InitRerun /\ [][NextRerun]_vars

-----------------------------------------------------------------------------
(* The two override maps of dataset_creation.py and the membership tests   *)
(* of the loops of Pass 2 and Pass 3                                       *)

\* line 494: i in album_url_mappings
in_album_url_mappings(i) == i \in album_url_mappings_keys

\* a secondary map that holds no key of the primary map
in_additional_only(i) ==
    i \in additional_url_mappings_keys \ album_url_mappings_keys

\* line 623: i in additional_url_mappings
in_additional_url_mappings(i) == i \in additional_url_mappings_keys

\* row positions looked up: every key of either map, and two that are keys
\* of neither
MapIndices == album_url_mappings_keys \cup additional_url_mappings_keys \cup {0, 1}

InitMaps ==
    /\ pc = "lookup"
    /\ arg \in MapIndices
    /\ ret = [done |-> FALSE, primary |-> FALSE, secondary |-> FALSE]
    /\ NoPipeline

\* the tests of lines 494 and 623 on one row position
Lookup ==
    /\ pc = "lookup"
    /\ ~ret.done
    /\ ret' = [done |-> TRUE,
               primary |-> in_album_url_mappings(arg),
               secondary |-> in_additional_url_mappings(arg)]
    /\ UNCHANGED <<pc, arg, pipeline_vars>>

NextMaps == Lookup

SpecMaps == InitMaps /\ [][NextMaps]_vars

-----------------------------------------------------------------------------
(* organize_basic_album_info: the records built from one column of the     *)
(* Metacritic table, in dataset_creation.py and in data_collection.py       *)

\* most cells in a column: two groups of five
MaxCells == 10

\* a null cell of the column (NaN), distinct from every text
null_cell == <<"nan">>

\* pandas.isnull(current_info)
isnull(current_info) == current_info = null_cell

\* lines 40 of dataset_creation.py and 36 of data_collection.py
field_mapping ==
    (0 :> "title" @@ 1 :> "metascore" @@ 2 :> "artist" @@ 3 :> "user_score"
       @@ 4 :> "release_date")

\* current_info[5:]
user_score_from_fifth(current_info) == SubSeq(current_info, 6, Len(current_info))

\* current_info[6:]
user_score_clean(current_info) == SubSeq(current_info, 7, Len(current_info))

RECURSIVE organize_loop(_, _, _)
\* lines 42-53 of dataset_creation.py: the loop from index i on
organize_loop(album_info, i, albums) ==
    IF i >= Len(album_info) THEN [albums |-> albums, raised |-> "none"]
    ELSE LET current_info == album_info[i + 1]
         IN  IF isnull(current_info) THEN [albums |-> albums, raised |-> "none"]
             ELSE LET field_index == i % 5
                      album_index == i \div 5
                      appended == IF field_index = 0 THEN Append(albums, <<>>) ELSE albums
                      cleaned  == IF field_mapping[field_index] = "user_score"
                                  THEN user_score_clean(current_info)
                                  ELSE current_info
                  IN  organize_loop(album_info, i + 1,
                          [appended EXCEPT ![album_index + 1] =
                              dict_set(@, field_mapping[field_index], cleaned)])

\* lines 36-54 of dataset_creation.py
organize_basic_album_info(album_info) == organize_loop(album_info, 0, <<>>)

RECURSIVE data_collection_organize_loop(_, _, _)
\* lines 38-47 of data_collection.py: no null test; slicing a null cell
\* (a float) raises TypeError
data_collection_organize_loop(album_info, i, albums) ==
    IF i >= Len(album_info) THEN [albums |-> albums, raised |-> "none"]
    ELSE LET current_info == album_info[i + 1]
             field_index == i % 5
             album_index == i \div 5
             appended == IF field_index = 0 THEN Append(albums, <<>>) ELSE albums
         IN  IF field_mapping[field_index] = "user_score" /\ isnull(current_info)
             THEN [albums |-> appended, raised |-> "TypeError"]
             ELSE LET cleaned == IF field_mapping[field_index] = "user_score"
                                 THEN user_score_clean(current_info)
                                 ELSE current_info
                  IN  data_collection_organize_loop(album_info, i + 1,
                          [appended EXCEPT ![album_index + 1] =
                              dict_set(@, field_mapping[field_index], cleaned)])

\* lines 32-48 of data_collection.py
data_collection_organize_basic_album_info(album_info) ==
    data_collection_organize_loop(album_info, 0, <<>>)

\* cells of a column: a null cell, a user score cell with its six-character
\* prefix, and a text shorter than the prefix
Cells == {null_cell,
          <<"U", "s", "e", "r", ":", " ", "8", ".", "8">>,
          <<"G", "u", "y">>}

Columns == UNION {[1..n -> Cells] : n \in 0..MaxCells}

InitOrganize ==
    /\ pc = "organize"
    /\ arg \in Columns
    /\ ret = [called |-> {}, dataset_creation |-> <<>>, data_collection |-> <<>>]
    /\ NoPipeline

\* dataset_creation.py lines 247-251: one call on a column
Organize ==
    /\ pc = "organize"
    /\ "dataset_creation" \notin ret.called
    /\ ret' = [ret EXCEPT !.called = @ \cup {"dataset_creation"},
                          !.dataset_creation = organize_basic_album_info(arg)]
    /\ UNCHANGED <<pc, arg, pipeline_vars>>

\* data_collection.py line 239: one call on a column
OrganizeDataCollection ==
    /\ pc = "organize"
    /\ "data_collection" \notin ret.called
    /\ ret' = [ret EXCEPT !.called = @ \cup {"data_collection"},
                          !.data_collection = data_collection_organize_basic_album_info(arg)]
    /\ UNCHANGED <<pc, arg, pipeline_vars>>

NextOrganize == Organize \/ OrganizeDataCollection

SpecOrganize == InitOrganize /\ [][NextOrganize]_vars

-----------------------------------------------------------------------------
(* The older pipeline of data_collection.py: initial scraping, the two      *)
(* selections and the retry loops, whose assignments name albums_df_ml, a   *)
(* variable the script never defines                                        *)

\* row positions studied in the older table
DataCollectionRows == {5, 6}

\* data_collection.py lines 112-126: no track count is stored
data_collection_add_album_lyrics_body(album, o) ==
    dict_set(album, "lyrics", IF o.index_ok THEN scraped(o) ELSE <<>>)

\* data_collection.py lines 143-174: the list of lyrics alone is returned
data_collection_add_lyrics_normal_alternate(artist, title, o) ==
    IF o.index_ok THEN scraped(o) ELSE <<>>

\* a selection of the rows with no lyrics and some punctuation
data_collection_selected_empty(df) ==
    {i \in DOMAIN df : Len(df[i]["lyrics"]) = 0 /\ row_has_punctuation(df[i])}

\* data_collection.py lines 368-372 and 384-388: rows whose lyrics have
\* length 2 and whose title or artist has punctuation
data_collection_selected(df) ==
    {i \in DOMAIN df : Len(df[i]["lyrics"]) = 2 /\ row_has_punctuation(df[i])}

InitDataCollection ==
    /\ pc = "dc_add_album_lyrics"
    /\ all_albums \in [DataCollectionRows -> AlbumInputs]
    /\ albums_df = <<>>
    /\ error_title_artist_mapping = <<>>
    /\ error_title_artist_mapping2 = <<>>
    /\ error_title_artist_mapping3 = <<>>
    /\ todo = ascending(DataCollectionRows)
    /\ result_tuple = <<>>
    /\ last = NoCall
    /\ has_lyrics = {}
    /\ NoFunction

\* data_collection.py lines 246-287: one iteration of add_album_lyrics
DcAddAlbumLyrics ==
    /\ pc = "dc_add_album_lyrics"
    /\ todo # <<>>
    /\ \E o \in Outcomes :
          /\ ValidOutcome(o)
          /\ LET i == Head(todo)
                 album == all_albums[i]
             IN  /\ all_albums' = [all_albums EXCEPT
                                      ![i] = data_collection_add_album_lyrics_body(album, o)]
                 /\ last' = Call(0, "add_album_lyrics", i,
                                 genius_url_A(album["artist"], album["title"]), <<>>, o)
    /\ todo' = Tail(todo)
    /\ UNCHANGED <<pc, albums_df, error_title_artist_mapping, error_title_artist_mapping2,
                   error_title_artist_mapping3, result_tuple, has_lyrics, function_vars>>

\* data_collection.py line 294
DcMakeDataFrame ==
    /\ pc = "dc_add_album_lyrics"
    /\ todo = <<>>
    /\ albums_df' = DataFrame(all_albums)
    /\ all_albums' = <<>>
    /\ last' = NoCall
    /\ pc' = "dc_select1"
    /\ UNCHANGED <<error_title_artist_mapping, error_title_artist_mapping2,
                   error_title_artist_mapping3, todo, result_tuple, has_lyrics,
                   function_vars>>

\* data_collection.py lines 366-372
DcSelect1 ==
    /\ pc = "dc_select1"
    /\ error_title_artist_mapping' =
          error_mapping(albums_df, data_collection_selected(albums_df))
    /\ todo' = ascending(DOMAIN error_title_artist_mapping')
    /\ pc' = "dc_pass1"
    /\ last' = NoCall
    /\ UNCHANGED <<all_albums, albums_df, error_title_artist_mapping2,
                   error_title_artist_mapping3, result_tuple, has_lyrics,
                   function_vars>>

\* data_collection.py lines 376-377, first iteration: the right-hand side is
\* evaluated, the resolver runs, then the target albums_df_ml raises
\* NameError and the script stops
DcPass1 ==
    /\ pc = "dc_pass1"
    /\ todo # <<>>
    /\ \E o \in Outcomes :
          /\ ValidOutcome(o)
          /\ LET i == Head(todo)
                 artist == iloc(albums_df, i, 0)
                 title  == iloc(albums_df, i, 4)
             IN  /\ result_tuple' = data_collection_add_lyrics_normal_alternate(artist, title, o)
                 /\ last' = Call(1, "add_lyrics_normal_alternate", i,
                                 genius_url_B(artist, title), albums_df[i]["lyrics"], o)
    /\ pc' = "NameError"
    /\ UNCHANGED <<all_albums, albums_df, error_title_artist_mapping,
                   error_title_artist_mapping2, error_title_artist_mapping3, todo,
                   has_lyrics, function_vars>>

\* data_collection.py lines 382-388, reached when the first selection was
\* empty
DcSelect2 ==
    /\ pc = "dc_pass1"
    /\ todo = <<>>
    /\ error_title_artist_mapping2' =
          error_mapping(albums_df, data_collection_selected(albums_df))
    /\ todo' = ascending(DOMAIN error_title_artist_mapping2')
    /\ pc' = "dc_pass2"
    /\ last' = NoCall
    /\ UNCHANGED <<all_albums, albums_df, error_title_artist_mapping,
                   error_title_artist_mapping3, result_tuple, has_lyrics,
                   function_vars>>

\* data_collection.py lines 392-403: the table is the one of line 294 and the
\* second selection is empty as the first was, so the loop has no iteration
\* and the table is exported
DcExport ==
    /\ pc = "dc_pass2"
    /\ todo = <<>>
    /\ has_lyrics' = DOMAIN albums_df
    /\ pc' = "dc_exported"
    /\ last' = NoCall
    /\ UNCHANGED <<all_albums, albums_df, error_title_artist_mapping,
                   error_title_artist_mapping2, error_title_artist_mapping3, todo,
                   result_tuple, function_vars>>

NextDataCollection ==
    \/ DcAddAlbumLyrics
    \/ DcMakeDataFrame
    \/ DcSelect1
    \/ DcPass1
    \/ DcSelect2
    \/ DcExport

SpecDataCollection == InitDataCollection /\ [][NextDataCollection]_vars

-----------------------------------------------------------------------------
(* Properties of the pipeline (under Spec) *)

PipelineRunning == pc \in {"add_album_lyrics", "select1", "pass1", "pass2", "pass3",
                           "scored", "KeyError", "done"}

\* the (lyrics, num_lyric_tracks) a resolver call left for its album; the
\* count is NaN when add_album_lyrics never stored one
resolved_lyrics ==
    IF last.pass = 0 THEN all_albums[last.row]["lyrics"] ELSE result_tuple[1]

resolved_tracks ==
    IF last.pass = 0
    THEN IF "num_lyric_tracks" \in DOMAIN all_albums[last.row]
         THEN all_albums[last.row]["num_lyric_tracks"] ELSE NaN
    ELSE Num(result_tuple[2])

Resolved == PipelineRunning /\ last.fn # "none"

\* C1: no pass of the cascade resolves a record whose lyrics were not empty.
C1_PassesTouchOnlyEmptyRecords ==
    (Resolved /\ last.pass \in {1, 2, 3}) => last.before = <<>>

\* C2: in each of the three resolvers a failed index fetch leaves lyrics = []
\* and num_lyric_tracks = 0.
C2_IndexFailureGivesEmptyAndZero ==
    (Resolved /\ last.index_failed)
    => resolved_lyrics = <<>> /\ resolved_tracks = Num(0)

\* C3: after any resolver call that produced a track count, a track failure
\* included, len(lyrics) <= num_tracks.
C3_LyricsAtMostTracks ==
    (Resolved /\ resolved_tracks # NaN) => Len(resolved_lyrics) <= resolved_tracks[1]

\* C7: explicit_avg is explicit_count / num_lyric_tracks when num_lyric_tracks
\* is positive and 0.0 otherwise, with no division by zero; a record with no
\* lyrics and zero tracks scores (0, 0.0).
C7_AverageGuarded ==
    (pc \in {"scored", "done"}) =>
        \A i \in DOMAIN albums_df :
            LET row == albums_df[i]
                n   == row["num_lyric_tracks"]
                c   == row["explicit_count"]
                avg == row["explicit_avg"]
            IN  /\ avg.d # 0
                /\ (n # NaN /\ n[1] > 0) => float_eq(avg, Float(c, n[1]))
                /\ ~(n # NaN /\ n[1] > 0) => float_eq(avg, Float(0, 1))
                /\ (row["lyrics"] = <<>> /\ n = Num(0)) => (c = 0 /\ float_eq(avg, Float(0, 1)))

C7_Witness ==
    /\ pc = "scored"
    /\ \E i, j \in DOMAIN albums_df :
          /\ albums_df[i]["lyrics"] = <<>>
          /\ albums_df[i]["num_lyric_tracks"] = Num(0)
          /\ albums_df[i]["explicit_avg"] = Float(0, 1)
          /\ albums_df[j]["num_lyric_tracks"] = Num(2)
          /\ albums_df[j]["explicit_count"] = 1
          /\ albums_df[j]["explicit_avg"] = Float(1, 2)

\* C10: Pass 1 selects exactly the records with empty lyrics and punctuation
\* in the title or the artist, resolves each of them with Policy B and stores
\* both parts of the result, empty or not.
C10_Pass1SelectsAndOverwrites ==
    [][/\ pc = "select1" =>
            /\ DOMAIN error_title_artist_mapping' =
                  {i \in DOMAIN albums_df :
                      /\ albums_df[i]["lyrics"] = <<>>
                      /\ \/ has_punctuation(albums_df[i]["title"])
                         \/ has_punctuation(albums_df[i]["artist"])}
            /\ todo' = ascending(DOMAIN error_title_artist_mapping')
       /\ (pc = "pass1" /\ todo # <<>>) =>
            LET i == Head(todo)
            IN  /\ i \in DOMAIN error_title_artist_mapping
                /\ last'.fn = "add_lyrics_normal_alternate" /\ last'.row = i
                /\ albums_df'[i]["lyrics"] = result_tuple'[1]
                /\ albums_df'[i]["num_lyric_tracks"] = Num(result_tuple'[2])
                /\ todo' = Tail(todo)
      ]_vars

C10_Witness ==
    /\ pc = "pass1"
    /\ last.pass = 1
    /\ last.row \in DOMAIN error_title_artist_mapping
    /\ result_tuple = <<<<>>, 0>>
    /\ albums_df[last.row]["lyrics"] = <<>>
    /\ albums_df[last.row]["num_lyric_tracks"] = Num(0)

\* C11 as stated: after the selection that follows Pass 1, every record with
\* empty lyrics and an entry in album_url_mappings is queued for Pass 2,
\* whether or not its title or artist contains punctuation.
C11_Pass2CoversEveryEmptyOverride ==
    pc = "pass2" =>
        \A i \in DOMAIN albums_df :
            (i \in album_url_mappings_keys /\ i \notin DOMAIN error_title_artist_mapping2)
            => albums_df[i]["lyrics"] # <<>>

\* C11: Pass 2 is applied to every record that still has empty lyrics after
\* Pass 1, has punctuation in its title or artist and has an entry in
\* album_url_mappings: the override URL is fetched directly and lyrics and
\* num_lyric_tracks are overwritten with the result; any other record is left
\* as it is.
C11_Pass2CoversPunctuatedEmptyOverride ==
    [][/\ (pc = "pass1" /\ todo = <<>>) =>
            /\ DOMAIN error_title_artist_mapping2' =
                  {i \in DOMAIN albums_df :
                      /\ albums_df[i]["lyrics"] = <<>>
                      /\ \/ has_punctuation(albums_df[i]["title"])
                         \/ has_punctuation(albums_df[i]["artist"])}
            /\ todo' = ascending(DOMAIN error_title_artist_mapping2')
       /\ (pc = "pass2" /\ todo # <<>>) =>
            LET i == Head(todo)
            IN  /\ i \in DOMAIN error_title_artist_mapping2
                /\ todo' = Tail(todo)
                /\ \A j \in DOMAIN albums_df : j # i => albums_df'[j] = albums_df[j]
                /\ IF i \in album_url_mappings_keys
                   THEN /\ last'.fn = "add_lyrics_hardcode_alternate"
                        /\ last'.row = i
                        /\ last'.url = album_url_mappings(i)
                        /\ albums_df'[i]["lyrics"] = result_tuple'[1]
                        /\ albums_df'[i]["num_lyric_tracks"] = Num(result_tuple'[2])
                   ELSE albums_df' = albums_df /\ last'.fn = "none"
      ]_vars

C11_Witness ==
    /\ pc = "pass2"
    /\ last.pass = 2
    /\ last.row \in DOMAIN error_title_artist_mapping2 \cap album_url_mappings_keys
    /\ last.before = <<>>
    /\ last.url = album_url_mappings(last.row)
    /\ result_tuple[1] # <<>>
    /\ albums_df[last.row]["lyrics"] = result_tuple[1]
    /\ albums_df[last.row]["num_lyric_tracks"] = Num(result_tuple[2])
    /\ \E j \in DOMAIN albums_df :
          /\ j \notin DOMAIN error_title_artist_mapping2
          /\ albums_df[j]["lyrics"] = <<>>

\* C12: the selection that follows Pass 2 queues exactly the records whose
\* lyrics sequence is empty, and Pass 3 resolves exactly the queued records
\* that have an entry in additional_url_mappings.
C12_Pass3SelectsEmptyRecords ==
    [][/\ (pc = "pass2" /\ todo = <<>>) =>
            DOMAIN error_title_artist_mapping3' =
                {i \in DOMAIN albums_df : albums_df[i]["lyrics"] = <<>>}
       /\ (pc = "pass3" /\ todo # <<>>) =>
            (last'.fn = "add_lyrics_hardcode_alternate"
                <=> Head(todo) \in additional_url_mappings_keys)
      ]_vars

\* C14: at the export filter a record is kept if and only if its lyrics
\* sequence is non-empty after all passes.
C14_ExportedIffLyricsFound ==
    pc = "done" =>
        \A i \in DOMAIN albums_df :
            i \in has_lyrics <=> albums_df[i]["lyrics"] # <<>>

\* C15: from the creation of the album table to the export filter the set of
\* record indices never changes: it is the same after the initial pass, after
\* each cascade pass and after the Scorer, and the filter builds a separate
\* table.
C15_NoRecordAddedOrRemoved ==
    /\ pc \in {"select1", "pass1", "pass2", "pass3", "scored", "KeyError", "done"}
          => DOMAIN albums_df = Rows
    /\ pc = "done" => has_lyrics \subseteq DOMAIN albums_df

C15_Witness ==
    /\ pc = "scored"
    /\ DOMAIN error_title_artist_mapping # {}
    /\ DOMAIN error_title_artist_mapping2 # {}
    /\ DOMAIN error_title_artist_mapping3 # {}
    /\ DOMAIN albums_df = Rows
    /\ \A i \in Rows : "explicit_count" \in DOMAIN albums_df[i]

\* C16: a failed request never stops the run. Whatever the site does,
\* add_album_lyrics goes on to the next album of the list and leaves a lyrics
\* field in the album it handled, so every album has one when the function
\* returns; and a cascade pass goes on to its next record with a result
\* tuple returned by the resolver, ([], 0) after a failed index request.
C16_FailuresSuppressed ==
    [][/\ (pc = "add_album_lyrics" /\ todo # <<>>) =>
            /\ pc' = pc
            /\ todo' = Tail(todo)
            /\ "lyrics" \in DOMAIN all_albums'[Head(todo)]
       /\ (pc = "add_album_lyrics" /\ todo = <<>>) =>
            /\ \A i \in Rows : "lyrics" \in DOMAIN all_albums[i]
            /\ pc' = "select1"
       /\ (pc \in {"pass1", "pass2", "pass3"} /\ todo # <<>>) =>
            /\ pc' = pc
            /\ todo' = Tail(todo)
            /\ last'.fn # "none" =>
                  /\ albums_df'[Head(todo)]["lyrics"] = result_tuple'[1]
                  /\ last'.index_failed => result_tuple' = <<<<>>, 0>>
      ]_vars

C16_Witness ==
    /\ pc = "add_album_lyrics"
    /\ todo = <<>>
    /\ last.fn = "add_album_lyrics"
    /\ last.row = 17
    /\ all_albums[3]["lyrics"] = <<>>
    /\ "num_lyric_tracks" \notin DOMAIN all_albums[3]
    /\ last.track_failed
    /\ Len(all_albums[17]["lyrics"]) = 1
    /\ all_albums[17]["num_lyric_tracks"] = Num(2)

\* C20 as stated: the lyrics a resolver call leaves never hold an empty
\* string.
C20_NoEmptyLyric ==
    Resolved => \A k \in 1..Len(resolved_lyrics) : resolved_lyrics[k] # <<>>

\* C20: the lyrics a resolver call leaves hold one string per track page
\* that was fetched, in order; a page without a lyrics container gives an
\* empty string, so lyrics can hold empty strings.
C20_OneLyricPerFetchedPage ==
    Resolved =>
        /\ Len(resolved_lyrics) = Len(last.pages)
        /\ \A k \in 1..Len(last.pages) :
              last.pages[k] = <<>> => resolved_lyrics[k] = <<>>

C20_Witness ==
    /\ Resolved
    /\ Len(last.pages) = 2
    /\ last.pages[1] = <<>>
    /\ last.pages[2] # <<>>
    /\ resolved_lyrics = <<<<>>, <<"h", "e", "l", "l">>>>

\* C21 as stated: a resolver whose index request succeeded requests every
\* track link of the index page, a failed track request or not, and leaves
\* one lyrics entry for every track but the failed ones.
C21_TrackFailureSkipsOneTrack ==
    (Resolved /\ ~last.index_failed) => last.requested = last.urls

\* C21: when the request for a track page raises, the resolver stops with
\* that album: the lyrics of the tracks fetched before it are all it leaves,
\* and the tracks after the failed one are never requested.
C21_TrackFailureEndsAlbum ==
    (Resolved /\ last.track_failed) =>
        /\ last.requested = Len(last.pages) + 1
        /\ last.requested <= last.urls
        /\ Len(resolved_lyrics) = last.requested - 1

C21_Witness ==
    /\ Resolved
    /\ last.track_failed
    /\ last.urls = 2
    /\ last.requested = 1
    /\ resolved_lyrics = <<>>

\* C22: the k-th entry of the lyrics a resolver call leaves is the text
\* extracted from the page of the k-th track link of the index page, in
\* document order, and the pages are requested in that order: the entries
\* come from the first links, with none left out in between.
C22_LyricsInDocumentOrder ==
    Resolved =>
        /\ Len(resolved_lyrics) <= last.urls
        /\ \A k \in 1..Len(resolved_lyrics) :
              resolved_lyrics[k] = retrieve_lyrics(last.pages[k])

C22_Witness ==
    /\ Resolved
    /\ last.urls = 2
    /\ Len(last.pages) = 2
    /\ last.pages[1] # <<>>
    /\ last.pages[2] = <<>>
    /\ resolved_lyrics = <<<<"h", "e", "l", "l">>, <<>>>>

\* C25: after the Scorer has run, a record whose explicit_count is positive
\* has a positive explicit_avg.
C25_PositiveCountPositiveAverage ==
    pc \in {"scored", "done"} =>
        \A i \in DOMAIN albums_df :
            albums_df[i]["explicit_count"] > 0 => albums_df[i]["explicit_avg"].n > 0

\* C26: no pass of the cascade replaces a non-empty lyrics sequence with an
\* empty one, whatever the site answers.
C26_LyricsNeverLost ==
    (Resolved /\ last.pass \in {1, 2, 3} /\ last.before # <<>>)
    => albums_df[last.row]["lyrics"] # <<>>

\* a step of one of the three pass loops on the record at the head of todo
PassStep == pc \in {"pass1", "pass2", "pass3"} /\ todo # <<>>

\* the selected set of the pass in progress
selected_set ==
    CASE pc = "pass1" -> DOMAIN error_title_artist_mapping
      [] pc = "pass2" -> DOMAIN error_title_artist_mapping2
      [] pc = "pass3" -> DOMAIN error_title_artist_mapping3

BasicFields == {"title", "artist", "metascore", "user_score", "release_date"}

-----------------------------------------------------------------------------
(* Properties of the URL Synthesizer (under SpecUrl) *)

BothSynthesized == pc = "url" /\ ret.called = {"A", "B"}

NoPunctuation == ~has_punctuation(arg.artist) /\ ~has_punctuation(arg.title)

no_edge_whitespace(s) == s = <<>> \/ (s[1] \notin Whitespace /\ s[Len(s)] \notin Whitespace)

\* the part of a URL after its last "/"
last_segment(url) ==
    LET k == CHOOSE j \in 1..Len(url) : url[j] = "/" /\ \A h \in (j + 1)..Len(url) : url[h] # "/"
    IN  SubSeq(url, k + 1, Len(url))

is_letter(c) == \E k \in 1..Len(UpperCase) : c = UpperCase[k] \/ c = LowerCase[k]

count_of(s, P(_)) == Cardinality({k \in 1..Len(s) : P(s[k])})

is_ampersand(c) == c = "&"

\* C4 as stated: for every pair without punctuation (leading, trailing and
\* repeated spaces included) Policy A and Policy B synthesize the same URL.
C4_SameUrlWithoutPunctuation ==
    (BothSynthesized /\ NoPunctuation) => ret.A = ret.B

\* C4 amended: for every pair in which neither string contains punctuation
\* and neither string begins or ends with a whitespace character, Policy A
\* and Policy B synthesize the same URL.
C4_SameUrlWithoutPunctuationOrEdgeWhitespace ==
    (BothSynthesized /\ NoPunctuation
        /\ no_edge_whitespace(arg.artist) /\ no_edge_whitespace(arg.title))
    => ret.A = ret.B

C4_Witness ==
    /\ BothSynthesized /\ NoPunctuation
    /\ no_edge_whitespace(arg.artist) /\ no_edge_whitespace(arg.title)
    /\ arg.title = <<"a", " ", " ", "b">>
    /\ arg.artist = SteveEarle
    /\ ret.A = ret.B

\* C5: for "Kendrick Lamar" / "DAMN." Policy A yields a title slug ending in
\* a trailing hyphen and Policy B yields exactly .../Kendrick-lamar/Damn.
C5_DamnExample ==
    (BothSynthesized /\ arg.artist = KendrickLamar /\ arg.title = DAMN)
    => /\ last_segment(ret.A) = <<"D", "a", "m", "n", "-">>
       /\ ret.B = GeniusAlbums
                    \o <<"K", "e", "n", "d", "r", "i", "c", "k", "-", "l", "a", "m", "a", "r">>
                    \o <<"/", "D", "a", "m", "n">>

C5_Witness ==
    /\ BothSynthesized /\ arg.artist = KendrickLamar /\ arg.title = DAMN
    /\ ret.A[Len(ret.A)] = "-"

\* C6: Policy B replaces "&" by "and" before punctuation is stripped, so no
\* ampersand is dropped: every "&" of the title contributes its three letters
\* to the title segment, and "A&R" gives the single token "aandr".
C6_AmpersandKept ==
    (pc = "url" /\ "B" \in ret.called)
    => /\ count_of(last_segment(ret.B), is_letter)
            = count_of(arg.title, is_letter) + 3 * count_of(arg.title, is_ampersand)
       /\ arg.title = AandR => last_segment(ret.B) = capitalize(<<"a", "a", "n", "d", "r">>)

C6_Witness ==
    /\ pc = "url" /\ "B" \in ret.called /\ arg.title = AandR
    /\ last_segment(ret.B) = <<"A", "a", "n", "d", "r">>

\* the part of a URL between "http://genius.com/albums/" and its last "/"
artist_segment(url) ==
    LET k == CHOOSE j \in 1..Len(url) : url[j] = "/" /\ \A h \in (j + 1)..Len(url) : url[h] # "/"
    IN  SubSeq(url, Len(GeniusAlbums) + 1, k - 1)

\* a slug with no empty token: no leading hyphen, no trailing hyphen and no
\* two hyphens in a row
no_empty_token(slug) ==
    /\ slug # <<>> => (slug[1] # "-" /\ slug[Len(slug)] # "-")
    /\ \A k \in 1..(Len(slug) - 1) : ~(slug[k] = "-" /\ slug[k + 1] = "-")

\* a slug that keeps every character position of the name: a hyphen exactly
\* where the name has a space or a character of the punctuation class
hyphen_per_separator(name, slug) ==
    /\ Len(slug) = Len(name)
    /\ \A k \in 1..Len(name) :
          slug[k] = "-" <=> (name[k] = " " \/ name[k] \in PunctuationClass)

C19_PolicyBNoEmptyToken ==
    (pc = "url" /\ "B" \in ret.called)
    => no_empty_token(artist_segment(ret.B)) /\ no_empty_token(last_segment(ret.B))

-----------------------------------------------------------------------------
(* Properties of the Scorer on one row (under SpecScore) *)

Vocabulary == {explicit_list[k] : k \in 1..Len(explicit_list)}

Scored == pc = "score_row" /\ ret.done

FuckThisShit == <<"f", "u", "c", "k", " ", "t", "h", "i", "s", " ", "s", "h", "i", "t">>

\* C8: explicit_count is the number of tokens of the lower-cased,
\* space-joined lyrics that equal a vocabulary word, each token counted once;
\* ["fuck this shit"] with one track scores (2, 2.0).
C8_CountsVocabularyTokens ==
    Scored =>
        LET tokens == tokenize(lower(join(<<" ">>, arg.lyrics)))
        IN  /\ ret.explicit_count = Cardinality({k \in 1..Len(tokens) : tokens[k] \in Vocabulary})
            /\ (arg.lyrics = <<FuckThisShit>> /\ arg.num_lyric_tracks = Num(1))
                  => /\ ret.explicit_count = 2
                     /\ ret.explicit_avg.d # 0
                     /\ float_eq(ret.explicit_avg, Float(2, 1))

C8_Witness ==
    /\ Scored
    /\ arg.lyrics = <<FuckThisShit>> /\ arg.num_lyric_tracks = Num(1)
    /\ ret.explicit_count = 2

Motherfuckers == <<"m", "o", "t", "h", "e", "r", "f", "u", "c", "k", "e", "r", "s">>

Motherfuckin == <<"m", "o", "t", "h", "e", "r", "f", "u", "c", "k", "i", "n">>

\* the words written between quotes in the list of lines 641-695: the two
\* literals of lines 676-677 are two words
WrittenWords ==
    (Vocabulary \ {Motherfuckers \o Motherfuckin}) \cup {Motherfuckers, Motherfuckin}

\* C29: every word written in the vocabulary list counts: explicit_count is
\* the number of tokens equal to a written word, so lyrics made of the one
\* token "motherfuckers" score 1.
C29_EveryWrittenWordCounts ==
    Scored =>
        LET tokens == tokenize(lower(join(<<" ">>, arg.lyrics)))
        IN  ret.explicit_count = Cardinality({k \in 1..Len(tokens) : tokens[k] \in WrittenWords})

-----------------------------------------------------------------------------
(* Properties of the Lyrics Extractor (under SpecLyrics) *)

Extracted == pc = "retrieve_lyrics" /\ ret.done

\* a text holding exactly one annotation: one "[", one "]" after it, and no
\* newline between them
one_annotation(t) ==
    /\ Cardinality({k \in 1..Len(t) : t[k] = "["}) = 1
    /\ Cardinality({k \in 1..Len(t) : t[k] = "]"}) = 1
    /\ \E i, j \in 1..Len(t) :
          /\ i < j /\ t[i] = "[" /\ t[j] = "]"
          /\ \A h \in i..j : t[h] # "\n"

\* C9: an annotation is removed and nothing is put in its place;
\* "[Chorus] I love you" gives " I love you"; no container gives "".
C9_AnnotationRemoved ==
    Extracted =>
        /\ arg = <<>> => ret.lyrics = <<>>
        /\ arg = <<ChorusILoveYou>>
              => ret.lyrics = <<" ", "I", " ", "l", "o", "v", "e", " ", "y", "o", "u">>
        /\ (Len(arg) = 1 /\ one_annotation(arg[1]))
              => LET t == arg[1]
                     i == CHOOSE k \in 1..Len(t) : t[k] = "["
                     j == CHOOSE k \in 1..Len(t) : t[k] = "]"
                 IN  ret.lyrics = SubSeq(t, 1, i - 1) \o SubSeq(t, j + 1, Len(t))

C9_Witness ==
    /\ Extracted
    /\ arg = <<ChorusILoveYou>>
    /\ ret.lyrics[1] = " "
    /\ Len(ret.lyrics) = Len(ChorusILoveYou) - 8


\* position k of a text lies inside a bracketed annotation: between a "["
\* and the first "]" after it on the same line, brackets included
in_annotation(t, k) ==
    \E i \in 1..k : \E j \in k..Len(t) :
        /\ i < j /\ t[i] = "[" /\ t[j] = "]"
        /\ \A h \in (i + 1)..(j - 1) : t[h] \notin {"]", "\n"}

\* a text without the characters that lie inside an annotation
outside_annotations(t) ==
    LET outside(p) == ~in_annotation(t, p[1])
        kept == SelectSeq([k \in 1..Len(t) |-> <<k, t[k]>>], outside)
    IN  [k \in 1..Len(kept) |-> kept[k][2]]

\* a text whose brackets pair up: "[" and "]" alternate, starting with "["
well_bracketed(t) ==
    LET is_bracket(c) == c \in {"[", "]"}
        brackets == SelectSeq(t, is_bracket)
    IN  /\ Len(brackets) % 2 = 0
        /\ \A k \in 1..Len(brackets) : brackets[k] = IF k % 2 = 1 THEN "[" ELSE "]"

\* C24: retrieve_lyrics removes only the text inside a bracketed annotation:
\* of a container with two annotations on one line, such as
\* "[Verse 1] hello [Chorus] world", the text between them is kept.
C24_OnlyAnnotationsRemoved ==
    (Extracted /\ Len(arg) = 1 /\ well_bracketed(arg[1]))
    => ret.lyrics = outside_annotations(arg[1])

-----------------------------------------------------------------------------
(* Properties of the override maps (under SpecMaps) *)

LookedUp == pc = "lookup" /\ ret.done

\* C13 as stated: no row position is a key of both album_url_mappings and
\* additional_url_mappings.
C13_MapsDisjoint ==
    LookedUp => ~(ret.primary /\ ret.secondary)

\* C13: row position 1701 is a key of both override maps, with two different
\* URLs, and it is the only such position.
C13_MapsShareOnly1701 ==
    LookedUp =>
        /\ (ret.primary /\ ret.secondary) <=> arg = 1701
        /\ arg = 1701 => album_url_mappings(arg) # additional_url_mappings(arg)

C13_Witness ==
    LookedUp /\ arg = 1701 /\ ret.primary /\ ret.secondary


-----------------------------------------------------------------------------
(* Properties of organize_basic_album_info (under SpecOrganize) *)

\* number of cells before the first null cell
cells_before_null(album_info) ==
    IF \E i \in 1..Len(album_info) : album_info[i] = null_cell
    THEN (CHOOSE i \in 1..Len(album_info) :
             /\ album_info[i] = null_cell
             /\ \A j \in 1..(i - 1) : album_info[j] # null_cell) - 1
    ELSE Len(album_info)

without_first_six(cell) == [m \in 1..(Len(cell) - 6) |-> cell[m + 6]]

\* the records the claim describes: record k (from 0) takes its fields, in
\* the order title, metascore, artist, user_score, release_date, from the
\* cells 5k..5k+4 that come before the first null cell
records_of(album_info) ==
    LET n == cells_before_null(album_info)
        position(f) == CHOOSE j \in 0..4 : field_mapping[j] = f
    IN  [k \in 1..((n + 4) \div 5) |->
            [f \in {field_mapping[j] : j \in {j \in 0..4 : 5 * (k - 1) + j < n}} |->
                LET cell == album_info[5 * (k - 1) + position(f) + 1]
                IN  IF f = "user_score" THEN without_first_six(cell) ELSE cell]]

has_null(album_info) == \E i \in 1..Len(album_info) : album_info[i] = null_cell

\* C17 as stated, for the function of both scripts: the records are those
\* of the cells before the first null cell.
C17_RecordsFromGroupsOfFive ==
    pc = "organize" =>
        /\ "dataset_creation" \in ret.called =>
              ret.dataset_creation = [albums |-> records_of(arg), raised |-> "none"]
        /\ "data_collection" \in ret.called =>
              ret.data_collection = [albums |-> records_of(arg), raised |-> "none"]

\* C17: organize_basic_album_info of dataset_creation.py builds record k from
\* cells 5k..5k+4 (title, metascore, artist, user_score without its first six
\* characters, release_date) and stops at the first null cell, leaving a last
\* record with only its leading fields when the null cell cuts a group short.
\* The function of data_collection.py builds the same records from a column
\* without null cells; it has no null test, so on a null cell it either
\* raises TypeError (user_score position) or stores the null cell as a field
\* and reads on to the end of the column.
C17_RecordsFromGroupsOfFiveUntilNull ==
    pc = "organize" =>
        /\ "dataset_creation" \in ret.called =>
              ret.dataset_creation = [albums |-> records_of(arg), raised |-> "none"]
        /\ ("data_collection" \in ret.called /\ ~has_null(arg)) =>
              ret.data_collection = [albums |-> records_of(arg), raised |-> "none"]
        /\ ("data_collection" \in ret.called /\ has_null(arg)) =>
              \/ ret.data_collection.raised = "TypeError"
              \/ /\ ret.data_collection.raised = "none"
                 /\ Len(ret.data_collection.albums) = (Len(arg) + 4) \div 5
                 /\ \E k \in DOMAIN ret.data_collection.albums :
                       \E f \in DOMAIN ret.data_collection.albums[k] :
                           ret.data_collection.albums[k][f] = null_cell

C17_Witness ==
    /\ pc = "organize"
    /\ ret.called = {"dataset_creation", "data_collection"}
    /\ Len(arg) = 10
    /\ cells_before_null(arg) = 7
    /\ Len(ret.dataset_creation.albums) = 2
    /\ ret.dataset_creation.albums[1]["user_score"] = <<"8", ".", "8">>
    /\ DOMAIN ret.dataset_creation.albums[1] =
          {"title", "metascore", "artist", "user_score", "release_date"}
    /\ DOMAIN ret.dataset_creation.albums[2] = {"title", "metascore"}
    /\ ret.data_collection.raised = "none"
    /\ ret.data_collection.albums[2]["artist"] = null_cell


FiveFields == {"title", "metascore", "artist", "user_score", "release_date"}

\* C28: every record organize_basic_album_info returns has all five fields,
\* for every column, one cut inside a group of five included.
C28_EveryRecordHasFiveFields ==
    pc = "organize" =>
        /\ "dataset_creation" \in ret.called =>
              \A k \in DOMAIN ret.dataset_creation.albums :
                  DOMAIN ret.dataset_creation.albums[k] = FiveFields
        /\ ("data_collection" \in ret.called /\ ret.data_collection.raised = "none") =>
              \A k \in DOMAIN ret.data_collection.albums :
                  DOMAIN ret.data_collection.albums[k] = FiveFields

-----------------------------------------------------------------------------
(* Properties of the older pipeline (under SpecDataCollection) *)

\* C23: in data_collection.py the records selected for the Policy B retry
\* and for the override pass are exactly the records with an empty lyrics
\* sequence and punctuation in the title or artist; a record that has lyrics
\* is never selected.
C23_OlderSelectionsAreTheEmptyRecords ==
    /\ pc \in {"dc_pass1", "NameError"} =>
          DOMAIN error_title_artist_mapping = data_collection_selected_empty(albums_df)
    /\ pc \in {"dc_pass2", "dc_exported"} =>
          DOMAIN error_title_artist_mapping2 = data_collection_selected_empty(albums_df)

-----------------------------------------------------------------------------
(* Properties of the repeated cascade (under SpecRerun) *)

\* the second run of the three passes has finished
CascadeRepeated == pc = "pass3" /\ todo = <<>> /\ ret.run = 2

\* the lyrics and num_lyric_tracks fields of a row
scraped_fields(row) ==
    [c \in {"lyrics", "num_lyric_tracks"} \cap DOMAIN row |-> row[c]]

\* C30: against a site that answers every URL the same way on every
\* request, a second run of the three passes on the table they produced
\* leaves the lyrics and num_lyric_tracks of every record as the first run
\* left them.
C30_CascadeIdempotent ==
    CascadeRepeated =>
        /\ DOMAIN albums_df = DOMAIN ret.produced
        /\ \A i \in DOMAIN albums_df :
              scraped_fields(albums_df[i]) = scraped_fields(ret.produced[i])

====
